---- MODULE Spec2Model ----
(***************************************************************************)
(* Model of frontend/script.js: the click handler handleAnalysis, its two  *)
(* suspension points (await fetch, await response.json()), and the UI      *)
(* helpers it calls (setLoadingState, showError, clearResults,             *)
(* displayResults, createOrUpdateChart).                                   *)
(***************************************************************************)
EXTENDS Integers, Sequences, FiniteSets, TLC

\* ---------------------------------------------------------------- bounds
MaxFetch == 3      \* number of requests dispatched in one behaviour
MaxCount == 1      \* largest comment count the service reports
MaxValue == 10     \* largest dataset value a tooltip is computed for

\* ------------------------------------------------------------- JS values
Undefined == [t |-> "undefined", n |-> 0]
NaN == [t |-> "NaN", n |-> 0]
Num(k) == [t |-> "number", n |-> k]

NoString == [t |-> "undefined", s |-> ""]
Str(x) == [t |-> "string", s |-> x]

JsAdd_concat(a, b) ==
    IF a.t = "number" /\ b.t = "number" THEN Num(a.n * 10 + b.n) ELSE NaN

\* a + b for operands that are numbers or undefined
JsAdd(a, b) == IF a.t = "number" /\ b.t = "number" THEN Num(a.n + b.n) ELSE NaN

\* total === 0
StrictEqualsZero(v) == v.t = "number" /\ v.n = 0

Digit == <<"0", "1", "2", "3", "4", "5", "6", "7", "8", "9">>

RECURSIVE NatToString(_)
NatToString(k) ==
    IF k < 10 THEN Digit[k + 1] ELSE NatToString(k \div 10) \o Digit[(k % 10) + 1]

\* ${v} inside a template literal
JsToString(v) ==
    CASE v.t = "number" -> NatToString(v.n)
      [] v.t = "NaN" -> "NaN"
      [] OTHER -> "undefined"

\* value || fallback, for a string or undefined value
Truthy(d) == d.t = "string" /\ d.s # ""

\* ---------------------------------------------------------------- input
Whitespace == {" ", "\t"}

RECURSIVE TrimStart(_)
TrimStart(s) ==
    IF s # <<>> /\ Head(s) \in Whitespace THEN TrimStart(Tail(s)) ELSE s

RECURSIVE TrimEnd(_)
TrimEnd(s) ==
    IF s # <<>> /\ s[Len(s)] \in Whitespace THEN TrimEnd(SubSeq(s, 1, Len(s) - 1)) ELSE s

trim_identity(s) == s

\* String.prototype.trim
trim(s) == TrimEnd(TrimStart(s))

\* the values the user can leave in the text field
Inputs == { <<>>, <<" ">>, <<"\t", " ">>, <<"a">>, <<" ", "a", " ">> }

IsBlank(s) == \A i \in 1..Len(s) : s[i] \in Whitespace

\* ------------------------------------------------------------- messages
ValidationMessage == "Please paste a YouTube video URL."
FallbackMessage == "An unknown error occurred."
ErrorPrefix == "Error: "
\* message of the SyntaxError response.json() rejects with
JsonSyntaxMessage == "Unexpected token < in JSON at position 0"
\* message of the TypeError raised by data.detail on a null body
NullDetailMessage == "Cannot read properties of null (reading 'detail')"
\* message of the TypeError raised by destructuring a null body
NullDestructureMessage == "Cannot destructure property 'positive' of 'data' as it is null."
\* messages of the TypeError fetch rejects with when no response arrives
FetchFailures == {"Failed to fetch", "Load failed"}

\* ------------------------------------------------------- response bodies
Details == {"", "bad url", "Failed to fetch"}
Counts == {Undefined} \cup {Num(k) : k \in 0..MaxCount}

InvalidBody == [kind |-> "invalid", detail |-> NoString, positive |-> Undefined, negative |-> Undefined]
NullBody == [kind |-> "null", detail |-> NoString, positive |-> Undefined, negative |-> Undefined]
DetailBody(d) == [kind |-> "object", detail |-> Str(d), positive |-> Undefined, negative |-> Undefined]
CountBody(p, q) == [kind |-> "object", detail |-> NoString, positive |-> p, negative |-> q]

Bodies ==
    {InvalidBody, NullBody}
        \cup {DetailBody(d) : d \in Details}
        \cup {CountBody(p, q) : p \in Counts, q \in Counts}

\* --------------------------------------------------------------- state
VARIABLES
    urlInput,     \* urlInput.value
    ui,           \* the DOM fields the script writes, sentimentChart, the dataset
                  \* of the instance it refers to (chartData), every Chart
                  \* instance created so far (charts), and the calls made by
                  \* the latest handleAnalysis run (log)
    calls,        \* activations of handleAnalysis suspended at an await
    fetchCount,   \* number of fetch() calls issued so far
    lastAttempt   \* input and outcome of the latest handleAnalysis run

vars == <<urlInput, ui, calls, fetchCount, lastAttempt>>

EmptySummary == [kind |-> "empty", positive |-> "", negative |-> "", total |-> ""]
NoCommentsSummary == [kind |-> "noComments", positive |-> "", negative |-> "", total |-> ""]
StatsSummary(p, q, t) ==
    [kind |-> "stats", positive |-> JsToString(p), negative |-> JsToString(q),
     total |-> JsToString(t)]

NoTooltip == [index |-> 0, text |-> ""]

Log(s, op, arg) == [s EXCEPT !.log = Append(@, <<op, arg>>)]

\* Chart.prototype.destroy on instance i
destroy(s, i) ==
    Log([s EXCEPT !.charts[i].alive = FALSE,
                  !.charts[i].destroyCalls = @ + 1,
                  !.tooltip = NoTooltip], "destroy", i)

\* new Chart(...) with dataset [positive, negative]
newChart(s, data) ==
    Log([s EXCEPT !.charts = Append(@, [alive |-> TRUE, destroyCalls |-> 0]),
                  !.sentimentChart = Len(s.charts) + 1,
                  !.chartData = <<data.positive, data.negative>>,
                  !.tooltip = NoTooltip],
        "create", Len(s.charts) + 1)

\* labels of the two categories
ChartLabels == <<"Positive", "Negative">>

\* context.chart.getDatasetMeta(0).total: the sum of the numeric values
ChartTotal(data) ==
    (IF data[1].t = "number" THEN data[1].n ELSE 0)
        + (IF data[2].t = "number" THEN data[2].n ELSE 0)

toFixed1_truncate(v, t) ==
    IF t = 0 THEN "NaN"
    ELSE LET tenths == (1000 * v) \div t
         IN NatToString(tenths \div 10) \o "." \o Digit[(tenths % 10) + 1]

\* ((v / t) * 100).toFixed(1) for integers 0 <= v <= t
toFixed1(v, t) ==
    IF t = 0 THEN "NaN"
    ELSE LET tenths == (2000 * v + t) \div (2 * t)
         IN NatToString(tenths \div 10) \o "." \o Digit[(tenths % 10) + 1]

\* the tooltip label callback
tooltipLabel(label, value, total) ==
    label \o ": " \o NatToString(value) \o " (" \o toFixed1(value, total) \o "%" \o ")"

setLoadingState_enabled(s, isLoading) ==
    Log([s EXCEPT !.disabled = FALSE, !.buttonHTML = "Analyze"],
        "setLoadingState", 0)

setLoadingState(s, isLoading) ==
    Log([s EXCEPT !.disabled = isLoading,
                  !.buttonHTML = IF isLoading THEN "Analyzing..." ELSE "Analyze"],
        "setLoadingState", IF isLoading THEN 1 ELSE 0)

showError(s, message) ==
    Log([s EXCEPT !.errorMessage = message], "showError", 0)

\* the log entry of a clearResults call: 1 when it found an error message
ClearedError(s) == IF s.errorMessage # "" THEN 1 ELSE 0

clearResults_release(s) ==
    Log([s EXCEPT !.errorMessage = "", !.display = "none",
                  !.summary = EmptySummary, !.sentimentChart = 0],
        "clearResults", ClearedError(s))

clearResults_keepChart(s) ==
    Log([s EXCEPT !.errorMessage = "", !.display = "none",
                  !.summary = EmptySummary], "clearResults", ClearedError(s))

clearResults_keepError(s) ==
    LET s1 == Log([s EXCEPT !.display = "none", !.summary = EmptySummary],
                  "clearResults", ClearedError(s))
    IN IF s1.sentimentChart # 0 THEN destroy(s1, s1.sentimentChart) ELSE s1

clearResults(s) ==
    LET s1 == Log([s EXCEPT !.errorMessage = "", !.display = "none",
                            !.summary = EmptySummary], "clearResults", ClearedError(s))
    IN IF s1.sentimentChart # 0 THEN destroy(s1, s1.sentimentChart) ELSE s1

createOrUpdateChart(s, data) ==
    LET s1 == IF s.sentimentChart # 0 THEN destroy(s, s.sentimentChart) ELSE s
    IN newChart(s1, data)

Returned(s) == [ui |-> s, thrown |-> FALSE, message |-> ""]
Thrown(s, m) == [ui |-> s, thrown |-> TRUE, message |-> m]

displayResults_fallthrough(s, data) ==
    LET s1 == [s EXCEPT !.display = "flex"]
        total == JsAdd(data.positive, data.negative)
    IN IF data.kind = "null" THEN Thrown(s1, NullDestructureMessage)
       ELSE Returned(createOrUpdateChart(
                [s1 EXCEPT !.summary = StatsSummary(data.positive, data.negative, total)],
                data))

displayResults(s, data) ==
    LET s1 == [s EXCEPT !.display = "flex"]
        total == JsAdd(data.positive, data.negative)
    IN IF data.kind = "null" THEN Thrown(s1, NullDestructureMessage)
       ELSE IF StrictEqualsZero(total)
            THEN Returned([s1 EXCEPT !.summary = NoCommentsSummary])
            ELSE Returned(createOrUpdateChart(
                     [s1 EXCEPT !.summary = StatsSummary(data.positive, data.negative, total)],
                     data))

\* the try block after fetch has fulfilled: response.json(), the ok test,
\* displayResults
handleAnalysis_try(s, ok, body) ==
    IF body.kind = "invalid" THEN Thrown(s, JsonSyntaxMessage)
    ELSE IF ~ok
         THEN IF body.kind = "null" THEN Thrown(s, NullDetailMessage)
              ELSE Thrown(s, IF Truthy(body.detail) THEN body.detail.s ELSE FallbackMessage)
         ELSE displayResults(s, body)

catchMessage_bare(message) == message

\* `Error: ${error.message}`
catchMessage(message) == ErrorPrefix \o message

handleAnalysis_settle_noFinally(r) ==
    IF r.thrown THEN showError(r.ui, catchMessage(r.message))
    ELSE setLoadingState(r.ui, FALSE)

\* catch and finally
handleAnalysis_settle(r) ==
    setLoadingState(IF r.thrown THEN showError(r.ui, catchMessage(r.message)) ELSE r.ui,
                    FALSE)

handleAnalysis_invalid_early(s) ==
    showError(setLoadingState(s, TRUE), ValidationMessage)

\* the !url branch
handleAnalysis_invalid(s) == showError(s, ValidationMessage)

handleAnalysis_dispatch_late(s) ==
    clearResults(setLoadingState(Log(s, "fetch", 0), TRUE))

handleAnalysis_dispatch_noAwait(s) ==
    setLoadingState(Log(clearResults(setLoadingState(s, TRUE)), "fetch", 0), FALSE)

\* setLoadingState(true); clearResults(); fetch(...)
handleAnalysis_dispatch(s) ==
    Log(clearResults(setLoadingState(s, TRUE)), "fetch", 0)

NoAttempt ==
    [input |-> <<>>, kind |-> "none", ok |-> FALSE, body |-> NullBody, desc |-> ""]

InitUi ==
    [disabled |-> FALSE, buttonHTML |-> "Analyze", errorMessage |-> "",
     display |-> "", summary |-> EmptySummary, sentimentChart |-> 0,
     chartData |-> <<Undefined, Undefined>>, tooltip |-> NoTooltip,
     charts |-> <<>>, log |-> <<>>]

Init ==
    /\ urlInput = <<>>
    /\ ui = InitUi
    /\ calls = {}
    /\ fetchCount = 0
    /\ lastAttempt = NoAttempt

\* the user edits the text field
SetInput(v) ==
    /\ urlInput # v
    /\ urlInput' = v
    /\ UNCHANGED <<ui, calls, fetchCount, lastAttempt>>

\* click on analyzeButton with a blank field: handleAnalysis returns early
ClickInvalid ==
    /\ ~ui.disabled
    /\ trim(urlInput) = <<>>
    /\ ui' = handleAnalysis_invalid([ui EXCEPT !.log = <<>>])
    /\ lastAttempt' = [NoAttempt EXCEPT !.input = urlInput, !.kind = "validation"]
    /\ UNCHANGED <<urlInput, calls, fetchCount>>

\* click on analyzeButton with a url: handleAnalysis runs up to await fetch
ClickDispatch ==
    /\ ~ui.disabled
    /\ trim(urlInput) # <<>>
    /\ fetchCount < MaxFetch
    /\ ui' = handleAnalysis_dispatch([ui EXCEPT !.log = <<>>])
    /\ calls' = calls \cup {[id |-> fetchCount + 1, pc |-> "fetch", url |-> trim(urlInput),
                             ok |-> FALSE, body |-> NullBody]}
    /\ fetchCount' = fetchCount + 1
    /\ lastAttempt' = [NoAttempt EXCEPT !.input = urlInput, !.kind = "pending"]
    /\ UNCHANGED urlInput

\* fetch rejects: no response was received
FetchReject(c, desc) ==
    /\ c.pc = "fetch"
    /\ ui' = handleAnalysis_settle(Thrown(ui, desc))
    /\ calls' = calls \ {c}
    /\ lastAttempt' = [lastAttempt EXCEPT !.kind = "transport", !.desc = desc]
    /\ UNCHANGED <<urlInput, fetchCount>>

\* fetch fulfils with a response; handleAnalysis suspends at response.json()
FetchFulfil(c, ok, body) ==
    /\ c.pc = "fetch"
    /\ calls' = (calls \ {c}) \cup {[c EXCEPT !.pc = "json", !.ok = ok, !.body = body]}
    /\ UNCHANGED <<urlInput, ui, fetchCount, lastAttempt>>

\* response.json() settles; handleAnalysis runs to its end
JsonSettle(c) ==
    /\ c.pc = "json"
    /\ ui' = handleAnalysis_settle(handleAnalysis_try(ui, c.ok, c.body))
    /\ calls' = calls \ {c}
    /\ lastAttempt' = [lastAttempt EXCEPT !.kind = "response", !.ok = c.ok, !.body = c.body]
    /\ UNCHANGED <<urlInput, fetchCount>>

\* the pointer moves onto slice i of the live chart: the tooltip label
\* callback runs
Hover(i) ==
    /\ ui.sentimentChart # 0
    /\ ui.charts[ui.sentimentChart].alive
    /\ ui.chartData[i].t = "number"
    /\ ui.tooltip.index # i
    /\ ui' = [ui EXCEPT !.tooltip =
                 [index |-> i,
                  text |-> tooltipLabel(ChartLabels[i], ui.chartData[i].n,
                                        ChartTotal(ui.chartData))]]
    /\ UNCHANGED <<urlInput, calls, fetchCount, lastAttempt>>

Next ==
    \/ \E v \in Inputs : SetInput(v)
    \/ ClickInvalid
    \/ ClickDispatch
    \/ \E c \in calls, desc \in FetchFailures : FetchReject(c, desc)
    \/ \E c \in calls, ok \in BOOLEAN, body \in Bodies : FetchFulfil(c, ok, body)
    \/ \E c \in calls : JsonSettle(c)
    \/ \E i \in 1..2 : Hover(i)

Spec == Init /\ [][Next]_vars

\* the page after one attempt answered 2xx {positive: p, negative: q}
InitTooltip ==
    \E p \in 0..MaxValue, q \in 0..MaxValue :
        /\ p + q > 0
        /\ urlInput = <<"a">>
        /\ ui = handleAnalysis_settle(
                   handleAnalysis_try(handleAnalysis_dispatch(InitUi), TRUE,
                                      CountBody(Num(p), Num(q))))
        /\ calls = {}
        /\ fetchCount = 1
        /\ lastAttempt = [NoAttempt EXCEPT !.input = <<"a">>, !.kind = "response",
                                           !.ok = TRUE,
                                           !.body = CountBody(Num(p), Num(q))]

NextTooltip == \E i \in 1..2 : Hover(i)

\* the tooltip callback applied to the chart of every result up to MaxValue
TooltipSpec == InitTooltip /\ [][NextTooltip]_vars

\* the event loop runs the continuation of a settled response.json()
FairSpec == Spec /\ WF_vars(\E c \in calls : JsonSettle(c))

TypeOK ==
    /\ urlInput \in Inputs
    /\ ui.disabled \in BOOLEAN
    /\ fetchCount \in 0..MaxFetch
    /\ Len(ui.charts) <= fetchCount

\* ------------------------------------------------------------ UI states
\* a request has been dispatched and its response handling has not finished
Loading == calls # {}
ErrorShown == ui.errorMessage # ""
ResultsVisible == ui.display = "flex"
LiveCharts == {i \in 1..Len(ui.charts) : ui.charts[i].alive}
LogIndices(op, arg) == {i \in 1..Len(ui.log) : ui.log[i] = <<op, arg>>}
Attempted == lastAttempt.kind # "none"
Settled == calls = {} /\ lastAttempt.kind \in {"transport", "response"}

\* C1: at most one activation of handleAnalysis is suspended at an await at
\* any time, and a fetch is issued only from a state with no activation in
\* flight and the button enabled.
C1_OneInFlight ==
    /\ [](Cardinality(calls) <= 1)
    /\ [][fetchCount' # fetchCount =>
            /\ calls = {}
            /\ ~ui.disabled
            /\ fetchCount' = fetchCount + 1]_vars

\* a second request is in flight after the first one was handled
C1_Witness == fetchCount = 2 /\ Cardinality(calls) = 1 /\ ui.disabled

\* C2: the button is disabled exactly while an activation is in flight; it
\* is enabled before any attempt, after a validation error, after an error
\* outcome and after results.
C2_DisabledIffLoading == ui.disabled <=> Loading

\* a service error has been handled and the button is enabled again
C2_Witness ==
    /\ Settled
    /\ lastAttempt.kind = "response"
    /\ ~lastAttempt.ok
    /\ ErrorShown
    /\ ~ui.disabled

\* C3: every step that finishes an activation (transport failure, service
\* error, success, exception in parsing or rendering) leaves the button
\* enabled, and an activation waiting for the response body leads to an
\* enabled button.
C3_Reenabled ==
    /\ [][Cardinality(calls') < Cardinality(calls) => ~ui'.disabled]_vars
    /\ ((\E c \in calls : c.pc = "json") ~> ~ui.disabled)

\* an exception thrown while rendering a 2xx null body has been handled
C3_Witness ==
    /\ Settled
    /\ lastAttempt.kind = "response"
    /\ lastAttempt.ok
    /\ lastAttempt.body = NullBody
    /\ ~ui.disabled

\* C4: after a click on a blank field the validation message is shown, the
\* button was never disabled, and no fetch was issued.
C4_BlankInput ==
    (Attempted /\ IsBlank(lastAttempt.input)) =>
        /\ lastAttempt.kind = "validation"
        /\ ui.errorMessage = ValidationMessage
        /\ ~ui.disabled
        /\ LogIndices("setLoadingState", 1) = {}
        /\ LogIndices("fetch", 0) = {}
        /\ calls = {}

\* a whitespace-only field was submitted after an earlier request
C4_Witness ==
    /\ lastAttempt.kind = "validation"
    /\ lastAttempt.input = <<"\t", " ">>
    /\ fetchCount >= 1

\* C5: a click on a non-blank field issues exactly one fetch, after the
\* button was disabled and before it is enabled again; the button is
\* disabled for as long as that attempt has not been handled.
C5_LoadingBeforeFetch ==
    ~IsBlank(lastAttempt.input) =>
        /\ lastAttempt.kind \in {"pending", "transport", "response"}
        /\ Cardinality(LogIndices("fetch", 0)) = 1
        /\ \A i \in LogIndices("fetch", 0) :
              \E j \in 1..(i - 1) :
                 /\ ui.log[j] = <<"setLoadingState", 1>>
                 /\ \A k \in j..i : ui.log[k] # <<"setLoadingState", 0>>
        /\ (lastAttempt.kind = "pending" => ui.disabled /\ Cardinality(calls) = 1)

\* a url with surrounding whitespace has been dispatched
C5_Witness ==
    /\ lastAttempt.kind = "pending"
    /\ lastAttempt.input = <<" ", "a", " ">>
    /\ \E c \in calls : c.pc = "fetch" /\ c.url = <<"a">>

\* a 2xx body the wire contract allows: an object with both counts
WellFormed(body) ==
    /\ body.kind = "object"
    /\ body.positive.t = "number"
    /\ body.negative.t = "number"

Malformed(ok, body) == body.kind \in {"invalid", "null"} \/ (ok /\ ~WellFormed(body))

ResultsRendered == ResultsVisible \/ ui.summary # EmptySummary \/ LiveCharts # {}

\* C6: after a response with a malformed or absent body the error message
\* is set and nothing of the results is rendered; results are rendered only
\* after a 2xx response with a well-formed body.
C6_MalformedBodyIsError ==
    (Settled /\ lastAttempt.kind = "response") =>
        /\ Malformed(lastAttempt.ok, lastAttempt.body) => (ErrorShown /\ ~ResultsRendered)
        /\ ResultsRendered => (lastAttempt.ok /\ WellFormed(lastAttempt.body))

\* the message the wire contract asks for after a non-2xx response
ServiceMessage(body) ==
    ErrorPrefix \o (IF body.kind = "object" /\ body.detail.t = "string"
                    THEN body.detail.s ELSE FallbackMessage)

\* C7: after a non-2xx response the error message is "Error: " followed by
\* the body's detail when present and by the fallback message otherwise, and
\* nothing of the results is rendered.
C7_ServiceErrorMessage ==
    (Settled /\ lastAttempt.kind = "response" /\ ~lastAttempt.ok) =>
        /\ ui.errorMessage = ServiceMessage(lastAttempt.body)
        /\ ~ResultsRendered

\* the messages rendered for non-2xx responses with an object body
ServiceRenderings ==
    {catchMessage(handleAnalysis_try(ui, FALSE, b).message) :
        b \in {x \in Bodies : x.kind = "object"}}

\* C8 as stated: after a transport failure the error message is non-empty
\* and differs from every message rendered for a service-reported error,
\* the fallback rendering included.
C8_TransportDistinguishable ==
    (Settled /\ lastAttempt.kind = "transport") =>
        /\ ErrorShown
        /\ ui.errorMessage \notin ServiceRenderings
        /\ ui.errorMessage # ErrorPrefix \o FallbackMessage

\* C8 amended: after a transport failure the error message is "Error: "
\* followed by the failure's description; it is non-empty, differs from the
\* fallback rendering, and nothing of the results is rendered.
C8_TransportMessage ==
    (Settled /\ lastAttempt.kind = "transport") =>
        /\ ui.errorMessage = ErrorPrefix \o lastAttempt.desc
        /\ ErrorShown
        /\ ui.errorMessage # ErrorPrefix \o FallbackMessage
        /\ ~ResultsRendered

\* a transport failure was handled after an earlier attempt rendered results
C8_Witness ==
    /\ Settled
    /\ lastAttempt.kind = "transport"
    /\ lastAttempt.desc = "Load failed"
    /\ Len(ui.charts) >= 1

\* C9: at most one chart instance is alive; every instance but the newest
\* has been destroyed; the live instance is the one sentimentChart refers
\* to; and within an attempt the creation of instance j > 1 comes after a
\* destroy of instance j - 1.
C9_OneLiveChart ==
    /\ Cardinality(LiveCharts) <= 1
    /\ LiveCharts \subseteq {ui.sentimentChart}
    /\ \A i \in 1..(Len(ui.charts) - 1) :
          ~ui.charts[i].alive /\ ui.charts[i].destroyCalls >= 1
    /\ \A j \in 2..Len(ui.charts) :
          \A i \in LogIndices("create", j) :
             \E k \in 1..(i - 1) : ui.log[k] = <<"destroy", j - 1>>

\* two successful submissions in a row: only the second instance is live
C9_Witness ==
    /\ Len(ui.charts) = 2
    /\ fetchCount = 2
    /\ LiveCharts = {2}
    /\ Settled

\* C10: whenever a request is in flight or an error message is shown, the
\* summary region is empty.
C10_SummaryCleared == (Loading \/ ErrorShown) => ui.summary = EmptySummary

\* C11: a chart instance is live only in the Results state: never while a
\* request is in flight, never while an error message is shown, and only
\* with the results region visible.
C11_ChartOnlyInResults ==
    LiveCharts # {} => (~Loading /\ ~ErrorShown /\ ResultsVisible)

\* C12: destroy is invoked at most once on each chart instance.
C12_DestroyOnce ==
    \A i \in 1..Len(ui.charts) : ui.charts[i].destroyCalls <= 1

\* C13: an error message is never shown together with a visible results
\* region.
C13_ErrorXorResults == ~(ErrorShown /\ ResultsVisible)

SucceededWith(body) ==
    /\ Settled
    /\ lastAttempt.kind = "response"
    /\ lastAttempt.ok
    /\ lastAttempt.body = body

ChartsCreatedInAttempt == {j \in 1..Len(ui.charts) : LogIndices("create", j) # {}}

\* C14: after a 2xx response {positive: 0, negative: 0} the summary is the
\* "No comments were analyzed." text with none of the three stats, the
\* attempt created no chart instance, and no chart instance is live.
C14_NoComments ==
    SucceededWith(CountBody(Num(0), Num(0))) =>
        /\ ui.summary = NoCommentsSummary
        /\ ResultsVisible
        /\ ChartsCreatedInAttempt = {}
        /\ LiveCharts = {}

\* a {0, 0} result arrived after an earlier attempt had created a chart
C14_Witness ==
    /\ SucceededWith(CountBody(Num(0), Num(0)))
    /\ Len(ui.charts) = 1
    /\ ui.sentimentChart = 1

\* C15: after a 2xx response with numeric counts whose sum is positive the
\* summary shows the positive count, the negative count and their sum,
\* each taken from that response.
C15_TotalIsSum ==
    \A p \in 0..(MaxCount + 1), q \in 0..(MaxCount + 1) :
        (p + q > 0 /\ SucceededWith(CountBody(Num(p), Num(q)))) =>
            /\ ui.summary.kind = "stats"
            /\ ui.summary.positive = NatToString(p)
            /\ ui.summary.negative = NatToString(q)
            /\ ui.summary.total = NatToString(p + q)

\* a second result, different from the first one rendered, is shown
C15_Witness ==
    /\ SucceededWith(CountBody(Num(1), Num(1)))
    /\ ui.summary.total = "2"
    /\ Len(ui.charts) = 2

\* C16: the percentage in the tooltip of a slice with value v, in a chart
\* whose two values sum to t, is v/t*100 rounded to one decimal place: it
\* is n/10 for an integer n within 1/20 of v/t*100.  For positive=10,
\* negative=5 the labels read 66.7% and 33.3%.
C16_TooltipPercentage ==
    ui.tooltip.index # 0 =>
        LET i == ui.tooltip.index
            v == ui.chartData[i].n
            t == ui.chartData[1].n + ui.chartData[2].n
        IN /\ \E n \in 0..1000 :
                 /\ 2 * (n * t - 1000 * v) <= t
                 /\ 2 * (1000 * v - n * t) <= t
                 /\ ui.tooltip.text =
                       ChartLabels[i] \o ": " \o NatToString(v) \o " ("
                          \o NatToString(n \div 10) \o "." \o Digit[(n % 10) + 1] \o "%)"
           /\ ui.chartData = <<Num(10), Num(5)>> =>
                 ui.tooltip.text = (IF i = 1 THEN "Positive: 10 (66.7%)"
                                             ELSE "Negative: 5 (33.3%)")

\* the tooltip of the Positive slice of the chart of {10, 5} is shown
C16_Witness ==
    /\ ui.chartData = <<Num(10), Num(5)>>
    /\ ui.tooltip.index = 1
    /\ ui.tooltip.text = "Positive: 10 (66.7%)"

\* C17: while a request stays unresolved nothing but the text field
\* changes: the button stays disabled, no further request is dispatched and
\* the page is not touched; the button is enabled again only by a step that
\* ends an activation (a rejected fetch or a handled response).
C17_NoTimeout ==
    [][/\ \A c \in calls :
            (c.pc = "fetch" /\ c \in calls') =>
                /\ ui.disabled
                /\ ui'.disabled
                /\ ui' = ui
                /\ calls' = calls
                /\ fetchCount' = fetchCount
       /\ (ui.disabled /\ ~ui'.disabled) => \E c \in calls : c \notin calls']_vars

\* the second request is unresolved and the user has edited the field since
C17_Witness ==
    /\ fetchCount = 2
    /\ \E c \in calls : c.pc = "fetch"
    /\ urlInput # lastAttempt.input
    /\ ui.disabled

\* C18: whenever a chart instance is live, no request is in flight, the
\* results region is visible, the summary shows the three stats of the
\* pair the chart was created from, and, when the latest attempt ended
\* with a response, that pair is the one of this 2xx response.
C18_LiveChartFresh ==
    LiveCharts # {} =>
        /\ ~Loading
        /\ ResultsVisible
        /\ ui.summary = StatsSummary(ui.chartData[1], ui.chartData[2],
                                     JsAdd(ui.chartData[1], ui.chartData[2]))
        /\ lastAttempt.kind = "response" =>
              /\ lastAttempt.ok
              /\ ui.chartData = <<lastAttempt.body.positive, lastAttempt.body.negative>>

\* the chart of a second result, different from the first, is live
C18_Witness ==
    /\ LiveCharts = {2}
    /\ SucceededWith(CountBody(Num(0), Num(1)))
    /\ ui.summary.negative = "1"
    /\ ui.charts[1].destroyCalls >= 1

\* C19: whenever an attempt has ended with a well-formed 2xx response, the
\* error message is empty, also when the attempt started with an error
\* message on display.
C19_ErrorCleared ==
    (Settled /\ lastAttempt.kind = "response" /\ lastAttempt.ok
        /\ WellFormed(lastAttempt.body)) => ui.errorMessage = ""

\* results are shown by an attempt that started with an error on display
C19_Witness ==
    /\ SucceededWith(CountBody(Num(1), Num(0)))
    /\ LogIndices("clearResults", 1) # {}
    /\ ui.errorMessage = ""
    /\ ResultsVisible
====
